---- MODULE Spec2Model ----
(***************************************************************************)
(* Model of backend/app.py: the POST /api/extract handler (api_extract),   *)
(* the contact extraction pipeline (extract_contacts) and its helpers.     *)
(*                                                                         *)
(* Text is a sequence of one-character strings.  Python's None is the      *)
(* empty sequence for the optional text fields of a contact (a regex       *)
(* match is never empty, a department keyword is never empty).             *)
(* A position p in a text is 1-based; a match [start, end) is given by     *)
(* start and the position end just after it, 0 meaning "no match".         *)
(***************************************************************************)
EXTENDS Naturals, Integers, Sequences, FiniteSets, TLC

None == <<>>

Max(a, b) == IF a >= b THEN a ELSE b
Min(a, b) == IF a <= b THEN a ELSE b
MinOf(S) == CHOOSE x \in S : \A y \in S : x <= y
MaxOf(S) == CHOOSE x \in S : \A y \in S : x >= y

(***************************************************************************)
(* Character classes of the regular expressions.                           *)
(***************************************************************************)
UpperSeq == <<"A","B","C","D","E","F","G","H","I","J","K","L","M","N","O","P","Q","R","S","T","U","V","W","X","Y","Z">>
LowerSeq == <<"a","b","c","d","e","f","g","h","i","j","k","l","m","n","o","p","q","r","s","t","u","v","w","x","y","z">>
Upper == {UpperSeq[i] : i \in 1..26}
Lower == {LowerSeq[i] : i \in 1..26}
Letter == Upper \cup Lower
Digit == {"0","1","2","3","4","5","6","7","8","9"}
\* \s : the whitespace characters of the model's alphabet ("nbsp" is U+00A0)
Whitespace == {" ", "\t", "\n", "\r", "nbsp"}
\* \w
WordChar == Letter \cup Digit \cup {"_"}
\* [a-zA-Z\'\.-]
NameChar == Letter \cup {"'", ".", "-"}
\* [a-zA-Z0-9_.+-]
EmailLocal == Letter \cup Digit \cup {"_", ".", "+", "-"}
\* [a-zA-Z0-9-]
EmailDomain == Letter \cup Digit \cup {"-"}
\* [a-zA-Z0-9-.]
EmailTail == Letter \cup Digit \cup {"-", "."}
\* [-,;:]
SepChar == {"-", ",", ";", ":"}

ToLower(c) == IF c \in Upper THEN LowerSeq[CHOOSE i \in 1..26 : UpperSeq[i] = c] ELSE c
ToUpper(c) == IF c \in Lower THEN UpperSeq[CHOOSE i \in 1..26 : LowerSeq[i] = c] ELSE c

\* the position after the longest run of characters of class S starting at p
Run(t, p, S) ==
    CHOOSE q \in p..(Len(t) + 1) :
        /\ q = Len(t) + 1 \/ t[q] \notin S
        /\ \A r \in p..(q - 1) : t[r] \in S

\* t[p:p+len(s)] == s
MatchAt(t, p, s) ==
    /\ p >= 1
    /\ p + Len(s) - 1 <= Len(t)
    /\ \A i \in 1..Len(s) : t[p + i - 1] = s[i]

\* the same under re.IGNORECASE
MatchCI(t, p, s) ==
    /\ p >= 1
    /\ p + Len(s) - 1 <= Len(t)
    /\ \A i \in 1..Len(s) : ToLower(t[p + i - 1]) = ToLower(s[i])

\* text[a:b] of Python with 1-based a and exclusive b
Slice(t, a, b) == SubSeq(t, a, Min(b, Len(t) + 1) - 1)

\* str.strip()
Strip(s) ==
    LET keep == {i \in 1..Len(s) : s[i] \notin Whitespace}
    IN  IF keep = {} THEN <<>> ELSE SubSeq(s, MinOf(keep), MaxOf(keep))

\* re.sub(r"\s+", "", s), over s[lo..hi]
RECURSIVE RemoveWhitespaceIn(_, _, _)
RemoveWhitespaceIn(s, lo, hi) ==
    IF lo > hi THEN <<>>
    ELSE IF lo = hi THEN (IF s[lo] \in Whitespace THEN <<>> ELSE <<s[lo]>>)
    ELSE LET mid == (lo + hi) \div 2
         IN  RemoveWhitespaceIn(s, lo, mid) \o RemoveWhitespaceIn(s, mid + 1, hi)

RemoveWhitespace(s) == RemoveWhitespaceIn(s, 1, Len(s))

\* re.sub(r"\s+", " ", re.sub(r"\xa0", " ", s)), over s[lo..hi]: the first
\* character of every whitespace run becomes a space, the rest of the run goes
RECURSIVE CollapseIn(_, _, _)
CollapseIn(s, lo, hi) ==
    IF lo > hi THEN <<>>
    ELSE IF lo = hi THEN
        (IF s[lo] \notin Whitespace THEN <<s[lo]>>
         ELSE IF lo > 1 /\ s[lo - 1] \in Whitespace THEN <<>>
         ELSE <<" ">>)
    ELSE LET mid == (lo + hi) \div 2
         IN  CollapseIn(s, lo, mid) \o CollapseIn(s, mid + 1, hi)

CollapseWhitespace(s) == CollapseIn(s, 1, Len(s))

\* str.title(): a cased character is upper-cased after an uncased one, lower-cased after a cased one
Title(s) ==
    [i \in 1..Len(s) |->
        IF i > 1 /\ s[i - 1] \in Letter THEN ToLower(s[i]) ELSE ToUpper(s[i])]

(***************************************************************************)
(* Email and phone patterns.                                               *)
(***************************************************************************)
\* [a-zA-Z0-9_.+-]+@[a-zA-Z0-9-]+\.[a-zA-Z0-9-.]+ matched at p: "@" is not a
\* local character and "." is not a domain character, so both greedy runs
\* must end exactly there; the last run is greedy
EmailEnd(t, p) ==
    LET a == Run(t, p, EmailLocal)
    IN  IF a = p \/ a > Len(t) \/ t[a] # "@" THEN 0
        ELSE LET b == Run(t, a + 1, EmailDomain)
             IN  IF b = a + 1 \/ b > Len(t) \/ t[b] # "." THEN 0
                 ELSE LET c == Run(t, b + 1, EmailTail)
                      IN  IF c = b + 1 THEN 0 ELSE c

\* \d{n} at p
DigitsAt(t, p, n) ==
    /\ p + n - 1 <= Len(t)
    /\ \A k \in 0..(n - 1) : t[p + k] \in Digit

\* [6-9]\d{9} at p
MobileAt(t, p) ==
    /\ p <= Len(t)
    /\ t[p] \in {"6", "7", "8", "9"}
    /\ DigitsAt(t, p + 1, 9)

\* (?:\+91[\s-]?)?[6-9]\d{9} at p
PhoneAlt1End(t, p) ==
    IF MatchAt(t, p, <<"+", "9", "1">>)
    THEN LET q == IF p + 3 <= Len(t) /\ t[p + 3] \in Whitespace \cup {"-"}
                  THEN p + 4 ELSE p + 3
         IN  IF MobileAt(t, q) THEN q + 10 ELSE 0
    ELSE IF MobileAt(t, p) THEN p + 10 ELSE 0

\* the ways 0\d{2,4}[\s-]?\d{6,8} can be taken, in the order the backtracking
\* engine tries them: more STD digits first, then the separator taken, then
\* more subscriber digits
PhoneAlt2Order ==
    [i \in 1..18 |-> [std  |-> 4 - ((i - 1) \div 6),
                      sep  |-> 1 - (((i - 1) \div 3) % 2),
                      subs |-> 8 - ((i - 1) % 3)]]

PhoneAlt2Fits(t, p, o) ==
    /\ DigitsAt(t, p + 1, o.std)
    /\ o.sep = 1 => (p + 1 + o.std <= Len(t) /\ t[p + 1 + o.std] \in Whitespace \cup {"-"})
    /\ DigitsAt(t, p + 1 + o.std + o.sep, o.subs)

\* 0\d{2,4}[\s-]?\d{6,8} at p
PhoneAlt2End(t, p) ==
    IF p > Len(t) \/ t[p] # "0" THEN 0
    ELSE LET fits == {i \in 1..18 : PhoneAlt2Fits(t, p, PhoneAlt2Order[i])}
         IN  IF fits = {} THEN 0
             ELSE LET o == PhoneAlt2Order[MinOf(fits)]
                  IN  p + 1 + o.std + o.sep + o.subs


\* a|b at a position: the end of the first alternative that matches
FirstAlternative(a, b) == IF a # 0 THEN a ELSE b

\* (?:\+91[\s-]?)?[6-9]\d{9}|0\d{2,4}[\s-]?\d{6,8} at p: the first alternative wins
PhoneEnd(t, p) == FirstAlternative(PhoneAlt1End(t, p), PhoneAlt2End(t, p))

\* a match object is its span [start, end), end = 0 standing for None
NoMatch == [start |-> 0, end |-> 0]

\* the match at the least of the positions hits
MatchAtLeast(ends, hits) ==
    IF hits = {} THEN NoMatch ELSE [start |-> MinOf(hits), end |-> ends[MinOf(hits)]]

\* re.search of a pattern whose match at position p ends at ends[p] (0 when
\* it does not match there): the leftmost match
Search(ends) == MatchAtLeast(ends, {p \in DOMAIN ends : ends[p] # 0})

\* match.group()
Group(t, m) == SubSeq(t, m.start, m.end - 1)

\* email_match.group().strip() if email_match else None
EmailValue(t, m) == IF m.end = 0 THEN None ELSE Strip(Group(t, m))

\* a phone that keeps the digits of the match only
PhoneDigitsValue(t, m) ==
    IF m.end = 0 THEN None ELSE SelectSeq(Group(t, m), LAMBDA c : c \in Digit)

\* re.sub(r"\s+", "", phone_match.group().strip()) if phone_match else None
PhoneValue(t, m) == IF m.end = 0 THEN None ELSE RemoveWhitespace(Strip(Group(t, m)))

\* re.search(email pattern, t), and the email taken from it
SearchEmail(t) == EmailValue(t, Search([p \in 1..Len(t) |-> EmailEnd(t, p)]))

\* a phone search that keeps the digits of the match only
SearchPhoneDigits(t) == PhoneDigitsValue(t, Search([p \in 1..Len(t) |-> PhoneEnd(t, p)]))

\* re.search(phone pattern, t), and the phone taken from it
SearchPhone(t) == PhoneValue(t, Search([p \in 1..Len(t) |-> PhoneEnd(t, p)]))

(***************************************************************************)
(* _guess_department                                                       *)
(***************************************************************************)
department_keywords == <<
    <<"E","n","g","i","n","e","e","r","i","n","g">>,
    <<"S","c","i","e","n","c","e">>,
    <<"A","r","t","s">>,
    <<"C","o","m","m","e","r","c","e">>,
    <<"M","a","n","a","g","e","m","e","n","t">>,
    <<"T","e","c","h","n","o","l","o","g","y">>,
    <<"B","u","s","i","n","e","s","s">>,
    <<"M","e","d","i","c","a","l">> >>

\* \b at position p of t: exactly one of t[p-1], t[p] is a word character
Boundary(t, p) ==
    (p > 1 /\ t[p - 1] \in WordChar) # (p <= Len(t) /\ t[p] \in WordChar)

\* re.search(r"\b" + dept + r"\b", context, re.IGNORECASE)
WholeWordIn(dept, context) ==
    \E p \in 1..Len(context) :
        /\ MatchCI(context, p, dept)
        /\ Boundary(context, p)
        /\ Boundary(context, p + Len(dept))


\* the first keyword of the list among those found
FirstDepartment(hits) == IF hits = {} THEN None ELSE department_keywords[MinOf(hits)]

guess_department(context) ==
    FirstDepartment({i \in 1..Len(department_keywords) :
                        WholeWordIn(department_keywords[i], context)})

(***************************************************************************)
(* extract_contacts: the name/designation matcher                          *)
(***************************************************************************)
designation_keywords == <<
    <<"P","r","o","f","e","s","s","o","r">>,
    <<"A","s","s","o","c","i","a","t","e"," ","P","r","o","f","e","s","s","o","r">>,
    <<"A","s","s","i","s","t","a","n","t"," ","P","r","o","f","e","s","s","o","r">>,
    <<"H","O","D">>,
    <<"H","e","a","d">>,
    <<"D","e","a","n">>,
    <<"D","i","r","e","c","t","o","r">>,
    <<"C","o","o","r","d","i","n","a","t","o","r">>,
    <<"P","r","i","n","c","i","p","a","l">>,
    <<"C","h","a","i","r","p","e","r","s","o","n">>,
    <<"R","e","g","i","s","t","r","a","r">> >>

\* the longest name the patterns repeat a word: {1,4}
MaxWords == 4
\* the size of the context windows: text[start - 300 : start], text[end : end + 300]
Window == 300

\* the class the patterns write as [A-Z]: both patterns are compiled with
\* re.IGNORECASE, under which [A-Z] matches a letter of either case
WordStart == Letter

\* [A-Z][a-zA-Z\'\.-]*\s+ at p: the run of name characters is greedy and must
\* be followed by whitespace, so it can only end at the end of the run
WordEnd(t, p) ==
    IF p >= 1 /\ p <= Len(t) /\ t[p] \in WordStart
    THEN LET r == Run(t, p + 1, NameChar)
             s == Run(t, r, Whitespace)
         IN  IF s > r THEN s ELSE 0
    ELSE 0

\* (?:[A-Z][a-zA-Z\'\.-]*\s+){n} at p
RECURSIVE WordsEnd(_, _, _)
WordsEnd(t, p, n) ==
    IF n = 0 THEN p
    ELSE LET q == WordsEnd(t, p, n - 1)
         IN  IF q = 0 THEN 0 ELSE WordEnd(t, q)

\* (Professor|Associate Professor|...) at p: the index of the first
\* alternative that matches, 0 without one
DesignationAt(t, p) ==
    LET alts == {k \in 1..Len(designation_keywords) : MatchCI(t, p, designation_keywords[k])}
    IN  IF alts = {} THEN 0 ELSE MinOf(alts)


\* a match of name_designation_regex: group 1 is [start, nameEnd), group 2 is
\* [desStart, end); end = 0 stands for no match
NoNameMatch(start) == [start |-> start, nameEnd |-> 0, desStart |-> 0, end |-> 0]

\* the words end at w, the designation alternative k (0: none) begins at d
NameMatch(start, w, d, k) ==
    IF k = 0 THEN NoNameMatch(start)
    ELSE [start |-> start, nameEnd |-> w, desStart |-> d,
          end |-> d + Len(designation_keywords[k])]

\* \s*(designation) after words that end at w (0: the words do not match)
DesignationAfter(t, start, w) ==
    IF w = 0 THEN NoNameMatch(start)
    ELSE NameMatch(start, w, Run(t, w, Whitespace), DesignationAt(t, Run(t, w, Whitespace)))

\* (?:word\s+){n}\s*(designation) at p
NameDesignationWith(t, start, p, n) == DesignationAfter(t, start, WordsEnd(t, p, n))

\* of the attempts ms, made in the order of their indices, the first that matched
FirstMatch(ms, none) ==
    LET fits == {i \in DOMAIN ms : ms[i].end # 0}
    IN  IF fits = {} THEN none ELSE ms[MinOf(fits)]

\* of the attempts ms, the last that matched
LastMatch(ms, none) ==
    LET fits == {i \in DOMAIN ms : ms[i].end # 0}
    IN  IF fits = {} THEN none ELSE ms[MaxOf(fits)]

\* (?:word\s+){1,4}\s*(designation) at p: the repetition is greedy, so the
\* largest count after which a designation follows is the one matched
NameDesignationFrom(t, start, p) ==
    LastMatch([n \in 1..MaxWords |-> NameDesignationWith(t, start, p, n)], NoNameMatch(start))

\* the position after (?:Dr\.?\s*) at p, 0 when "Dr" is not there
DrEnd(t, p) ==
    IF MatchCI(t, p, <<"D", "r">>)
    THEN Run(t, IF p + 2 <= Len(t) /\ t[p + 2] = "." THEN p + 3 ELSE p + 2, Whitespace)
    ELSE 0

\* the rest of the pattern after the optional part, which ended at q (0: it is not there)
NameDesignationAfterDr(t, p, q) ==
    IF q = 0 THEN NoNameMatch(p) ELSE NameDesignationFrom(t, p, q)

\* the match a if there is one, else b
MatchOrElse(a, b) == IF a.end # 0 THEN a ELSE b

\* name_designation_regex at p: the optional (?:Dr\.?\s*)? is tried taken
\* first, and given up when the rest does not match after it
NameDesignationAt(t, p) ==
    MatchOrElse(NameDesignationAfterDr(t, p, DrEnd(t, p)), NameDesignationFrom(t, p, p))

RECURSIVE NameDesignationMatches(_, _)
\* the match m and the matches of the text after it
NameDesignationThen(t, m) ==
    IF m.end = 0 THEN <<>> ELSE <<m>> \o NameDesignationMatches(t, m.end)

\* name_designation_regex.finditer(text) from position p on: the leftmost
\* match, then the matches of the text after it
NameDesignationMatches(t, p) ==
    NameDesignationThen(t, FirstMatch([q \in p..Len(t) |-> NameDesignationAt(t, q)], NoNameMatch(0)))

(***************************************************************************)
(* extract_contacts: the context windows of a match                        *)
(***************************************************************************)
context_before(t, m) == SubSeq(t, Max(1, m.start - Window), m.start - 1)
\* an after window that runs to the end of the text
context_after_unbounded(t, m) == Slice(t, m.end, Len(t) + 1)

context_after(t, m) == Slice(t, m.end, m.end + Window)

\* a department guessed from both windows taken together: keyword order first
DepartmentOfBothWindows(t, m) == guess_department(context_before(t, m) \o context_after(t, m))


\* a or b of Python, for values that are None or a non-empty string
PyOr(a, b) == IF a # None THEN a ELSE b

\* department = _guess_department(context_before) or _guess_department(context_after)
DepartmentOf(t, m) ==
    PyOr(guess_department(context_before(t, m)), guess_department(context_after(t, m)))

EmailOf(t, m) == SearchEmail(context_after(t, m))
PhoneOf(t, m) == SearchPhone(context_after(t, m))

\* the dict appended to contacts for a match
Contact(t, m, name, designation) ==
    [name        |-> name,
     designation |-> designation,
     department  |-> DepartmentOf(t, m),
     email       |-> EmailOf(t, m),
     phone       |-> PhoneOf(t, m)]

\* name = re.sub(r"\s+", " ", match.group(1).strip())
NameOf(t, m) == CollapseWhitespace(Strip(SubSeq(t, m.start, m.nameEnd - 1)))

\* designation = match.group(2).title()
FacultyContact(t, m) ==
    Contact(t, m, NameOf(t, m), Title(SubSeq(t, m.desStart, m.end - 1)))

(***************************************************************************)
(* extract_contacts: the student-role matcher                              *)
(***************************************************************************)
student_keywords == <<
    <<"P","l","a","c","e","m","e","n","t"," ","C","e","l","l">>,
    <<"S","t","u","d","e","n","t"," ","C","o","u","n","c","i","l">>,
    <<"C","u","l","t","u","r","a","l"," ","H","e","a","d">> >>

\* \s*[-,;:]?\s* + keyword at p: the position after the keyword, 0 if it
\* does not follow (no keyword starts with whitespace or a separator, so
\* the optional parts are taken whenever they are there)
RoleTailEnd(t, p, keyword) ==
    LET a == Run(t, p, Whitespace)
        b == IF a <= Len(t) /\ t[a] \in SepChar THEN a + 1 ELSE a
        c == Run(t, b, Whitespace)
    IN  IF MatchCI(t, c, keyword) THEN c + Len(keyword) ELSE 0


\* a match of the student pattern: group 1 is [start, nameEnd); end = 0
\* stands for no match
NoStudentMatch(p) == [start |-> p, nameEnd |-> 0, end |-> 0]

\* the name captured up to e, then the tail
StudentEnding(t, p, e, keyword) ==
    IF RoleTailEnd(t, e, keyword) = 0 THEN NoStudentMatch(p)
    ELSE [start |-> p, nameEnd |-> e, end |-> RoleTailEnd(t, e, keyword)]

\* [A-Z][a-zA-Z\'\.-]* at q, then the tail: the word is greedy but gives
\* characters back, so the longest word after which the tail matches is the
\* one captured
StudentLastWord(t, p, q, keyword) ==
    IF q # 0 /\ q <= Len(t) /\ t[q] \in WordStart
    THEN LastMatch([e \in (q + 1)..Run(t, q + 1, NameChar) |-> StudentEnding(t, p, e, keyword)],
                   NoStudentMatch(p))
    ELSE NoStudentMatch(p)

\* ((?:word\s+){n}[A-Z][a-zA-Z\'\.-]*) then the tail, at p
StudentWith(t, p, n, keyword) == StudentLastWord(t, p, WordsEnd(t, p, n), keyword)

\* the student pattern of a keyword at p: the greedy {1,4} takes the largest
\* count that leads to a match
StudentAt(t, p, keyword) ==
    LastMatch([n \in 1..MaxWords |-> StudentWith(t, p, n, keyword)], NoStudentMatch(p))

RECURSIVE StudentMatches(_, _, _)
\* the match m and the matches of the text after it
StudentThen(t, m, keyword) ==
    IF m.end = 0 THEN <<>> ELSE <<m>> \o StudentMatches(t, m.end, keyword)

\* pattern.finditer(text) from position p on
StudentMatches(t, p, keyword) ==
    StudentThen(t, FirstMatch([q \in p..Len(t) |-> StudentAt(t, q, keyword)], NoStudentMatch(0)), keyword)

\* designation = keyword
StudentContact(t, m, keyword) == Contact(t, m, NameOf(t, m), keyword)

\* lines 167-198: the contacts of the name/designation matches ms, in order
FacultyContacts(t, ms) == [i \in 1..Len(ms) |-> FacultyContact(t, ms[i])]

\* lines 209-236: the contacts of the matches ms of one keyword
StudentContacts(t, keyword, ms) == [i \in 1..Len(ms) |-> StudentContact(t, ms[i], keyword)]

\* the first n of the lists, one after the other
RECURSIVE Concat(_, _)
Concat(lists, n) == IF n = 0 THEN <<>> ELSE Concat(lists, n - 1) \o lists[n]

(***************************************************************************)
(* extract_contacts: de-duplication by (name, designation, email)          *)
(***************************************************************************)
\* a key that tells contacts apart by every field
KeyOfAllFields(c) == <<c.name, c.designation, c.department, c.email, c.phone>>

\* key = (c["name"], c["designation"], c.get("email"))
Key(c) == <<c.name, c.designation, c.email>>

\* the loop of lines 241-245 over the first n contacts: the keys seen and
\* the contacts kept so far
RECURSIVE Deduplicate(_, _)
Deduplicate(cs, n) ==
    IF n = 0 THEN [seen |-> {}, unique |-> <<>>]
    ELSE LET d == Deduplicate(cs, n - 1)
         IN  IF Key(cs[n]) \notin d.seen
             THEN [seen |-> d.seen \cup {Key(cs[n])}, unique |-> Append(d.unique, cs[n])]
             ELSE d

unique_contacts(cs) == Deduplicate(cs, Len(cs)).unique

(***************************************************************************)
(* _normalise_url, with urlparse's scheme detection (urllib.parse.urlsplit) *)
(***************************************************************************)
\* the characters urlsplit accepts in a scheme
SchemeChar == Letter \cup Digit \cup {"+", "-", "."}

\* urlsplit removes tab, carriage return and newline wherever they are
RECURSIVE RemoveUnsafeIn(_, _, _)
RemoveUnsafeIn(s, lo, hi) ==
    IF lo > hi THEN <<>>
    ELSE IF lo = hi THEN (IF s[lo] \in {"\t", "\r", "\n"} THEN <<>> ELSE <<s[lo]>>)
    ELSE LET mid == (lo + hi) \div 2
         IN  RemoveUnsafeIn(s, lo, mid) \o RemoveUnsafeIn(s, mid + 1, hi)


\* the place of the ":" that ends a scheme, 0 when u has no scheme: the text
\* before the first ":" is a scheme when it is not empty, starts with a letter
\* and holds scheme characters only
SchemeEnd(u, colons) ==
    IF colons # {} /\ MinOf(colons) > 1 /\ u[1] \in Letter
          /\ \A k \in 1..(MinOf(colons) - 1) : u[k] \in SchemeChar
    THEN MinOf(colons)
    ELSE 0

\* the netloc of what follows the scheme: the text after a leading "//", up
\* to the first of "/", "?", "#" at the places stops
Netloc(rest, stops) ==
    IF MatchAt(rest, 1, <<"/", "/">>)
    THEN SubSeq(rest, 3, IF stops = {} THEN Len(rest) ELSE MinOf(stops) - 1)
    ELSE <<>>

\* urlsplit raises ValueError("Invalid IPv6 URL") for a netloc with one
\* bracket and not the other
InvalidNetloc(netloc) ==
    (\E k \in 1..Len(netloc) : netloc[k] = "[") # (\E k \in 1..Len(netloc) : netloc[k] = "]")

\* whether the netloc check raises on what follows the scheme
RestRaises(rest) ==
    InvalidNetloc(Netloc(rest, {k \in 3..Len(rest) : rest[k] \in {"/", "?", "#"}}))

\* the result for u, whose scheme ends at i (0: no scheme)
SplitAt(u, i) ==
    IF i = 0
    THEN [scheme |-> <<>>, raises |-> RestRaises(u)]
    ELSE [scheme |-> [k \in 1..(i - 1) |-> ToLower(u[k])],
          raises |-> RestRaises(SubSeq(u, i + 1, Len(u)))]

urlsplit(u) == SplitAt(u, SchemeEnd(u, {i \in 1..Len(u) : u[i] = ":"}))

\* urlparse(url): the scheme (empty when there is none) and whether the
\* netloc check raises ValueError.  The validation of a host between
\* matching brackets is outside the alphabets used here.
urlparse(url) == urlsplit(RemoveUnsafeIn(url, 1, Len(url)))

\* lines 67-70 without line 65, for the stripped url s parsed as parsed
with_scheme_no_relative(s, parsed) ==
    IF parsed.raises
    THEN [raised |-> TRUE, url |-> <<>>]
    ELSE IF parsed.scheme = <<>>
    THEN [raised |-> FALSE, url |-> <<"h","t","t","p","s",":","/","/">> \o s]
    ELSE [raised |-> FALSE, url |-> s]

\* a normaliser that prefixes "https://" whenever there is no scheme, without
\* the branch for protocol-relative URLs
normalise_url_no_relative(url) == with_scheme_no_relative(Strip(url), urlparse(Strip(url)))

\* lines 65-70, for the stripped url s, parsed as parsed when line 67 is reached
with_scheme(s, parsed) ==
    IF MatchAt(s, 1, <<"/", "/">>)
    THEN [raised |-> FALSE, url |-> <<"h","t","t","p","s",":">> \o s]
    ELSE IF parsed.raises
    THEN [raised |-> TRUE, url |-> <<>>]
    ELSE IF parsed.scheme = <<>>
    THEN [raised |-> FALSE, url |-> <<"h","t","t","p","s",":","/","/">> \o s]
    ELSE [raised |-> FALSE, url |-> s]

\* _normalise_url(url): the URL returned, or raised when urlparse raises
normalise_url(url) == with_scheme(Strip(url), urlparse(Strip(url)))

(***************************************************************************)
(* Request bodies.  A JSON value is its type t with a number n (the value   *)
(* of a number, 1 for true, the count of elements or keys) and a text s.    *)
(***************************************************************************)
JNull == [t |-> "null", n |-> 0, s |-> <<>>]
JBool(b) == [t |-> "bool", n |-> IF b THEN 1 ELSE 0, s |-> <<>>]
JNum(n) == [t |-> "number", n |-> n, s |-> <<>>]
JStr(s) == [t |-> "string", n |-> 0, s |-> s]
JArr(n) == [t |-> "array", n |-> n, s |-> <<>>]
JObj(n) == [t |-> "object", n |-> n, s |-> <<>>]

\* a request whose body is not JSON at all, or not valid JSON
NoJsonBody == [kind |-> "none", data |-> JNull, hasUrl |-> FALSE, urlv |-> JNull]
InvalidJsonBody == [kind |-> "invalid", data |-> JNull, hasUrl |-> FALSE, urlv |-> JNull]
\* a JSON body that is not an object
ValueBody(j) == [kind |-> "json", data |-> j, hasUrl |-> FALSE, urlv |-> JNull]
\* a JSON object of n keys without "url"
ObjectBody(n) == [kind |-> "json", data |-> JObj(n), hasUrl |-> FALSE, urlv |-> JNull]
\* the JSON object {"url": j}
UrlBody(j) == [kind |-> "json", data |-> JObj(1), hasUrl |-> TRUE, urlv |-> j]

\* Python's truth value of a JSON value
Truthy(j) ==
    CASE j.t = "null"   -> FALSE
      [] j.t = "bool"   -> j.n = 1
      [] j.t = "number" -> j.n # 0
      [] j.t = "string" -> j.s # <<>>
      [] j.t = "array"  -> j.n > 0
      [] j.t = "object" -> j.n > 0

\* request.get_json(silent=True): None unless the body parses as JSON
get_json(b) == IF b.kind = "json" THEN b.data ELSE JNull

\* data.get("url") on a dict
get_url(b) == IF b.hasUrl THEN b.urlv ELSE JNull

(***************************************************************************)
(* The server: one request at a time through api_extract                    *)
(***************************************************************************)
VARIABLES
    pc,         \* where the handler is
    body,       \* the request being served
    url,        \* data["url"]
    full_url,   \* the URL handed to requests.get
    getCalls,   \* the GETs made for this request
    outcome,    \* how the GET ended: "none" before it, "ok", or the exception
    page,       \* the visible text of the fetched page (soup.get_text)
    text,       \* the flattened text
    contacts,   \* the contacts matched so far
    spans,      \* the match span [start, end) behind each entry of contacts
    result,     \* what extract_contacts returned
    response,   \* what the handler answered
    failures    \* whether an earlier request of this server ended in HTTP 500

vars == <<pc, body, url, full_url, getCalls, outcome, page, text, contacts, spans, result, response, failures>>

NoResult == [kind |-> "none", error |-> <<>>, list |-> <<>>]
ErrorResult(exc) == [kind |-> "error", error |-> <<"Failed to fetch URL: ", exc>>, list |-> <<>>]
ListResult(cs) == [kind |-> "list", error |-> <<>>, list |-> cs]

NoResponse == [status |-> 0, kind |-> "none", error |-> <<>>, list |-> <<>>]
UrlRequired == <<"A JSON payload with a 'url' field is required.">>
\* jsonify({"error": ...}), 400
BadRequest == [status |-> 400, kind |-> "object", error |-> UrlRequired, list |-> <<>>]
\* an exception that leaves the view function: Flask answers 500 itself
Unhandled == [status |-> 500, kind |-> "unhandled", error |-> <<>>, list |-> <<>>]

Init ==
    /\ pc = "idle"
    /\ body = NoJsonBody
    /\ url = JNull
    /\ full_url = <<>>
    /\ getCalls = 0
    /\ outcome = "none"
    /\ page = <<>>
    /\ text = <<>>
    /\ contacts = <<>>
    /\ spans = <<>>
    /\ result = NoResult
    /\ response = NoResponse
    /\ failures = FALSE

\* lines 258-261: a request arrives; the payload is validated
Receive(Bodies) ==
    /\ pc = "idle"
    /\ \E b \in Bodies :
        /\ body' = b
        /\ IF ~Truthy(get_json(b))
           THEN pc' = "responded" /\ response' = BadRequest /\ url' = url
           ELSE IF get_json(b).t # "object"
           THEN \* data.get raises AttributeError: only a dict has .get
                pc' = "responded" /\ response' = Unhandled /\ url' = url
           ELSE IF ~Truthy(get_url(b))
           THEN pc' = "responded" /\ response' = BadRequest /\ url' = url
           ELSE pc' = "extract" /\ response' = response /\ url' = get_url(b)
    /\ UNCHANGED <<full_url, getCalls, outcome, page, text, contacts, spans, result, failures>>


\* line 125, inside the try: a url that is no string has no .strip()
Normalise ==
    /\ pc = "extract"
    /\ IF url.t # "string"
       THEN pc' = "returned" /\ result' = ErrorResult("AttributeError") /\ full_url' = full_url
       ELSE \E n \in {normalise_url(url.s)} :
               IF n.raised
               THEN pc' = "returned" /\ result' = ErrorResult("ValueError") /\ full_url' = full_url
               ELSE pc' = "get" /\ result' = result /\ full_url' = n.url
    /\ UNCHANGED <<body, url, getCalls, outcome, page, text, contacts, spans, response, failures>>

\* lines 126-127 succeed: the page arrives
GetOK(Pages) ==
    /\ pc = "get"
    /\ \E p \in Pages : page' = p
    /\ getCalls' = getCalls + 1
    /\ outcome' = "ok"
    /\ pc' = "fetched"
    /\ UNCHANGED <<body, url, full_url, text, contacts, spans, result, response, failures>>

\* the exceptions of requests.get and raise_for_status
FetchErrors == {"ConnectionError", "Timeout", "HTTPError"}

\* a fetch without the try/except: the exception leaves extract_contacts and the view
GetFailRaises ==
    /\ pc = "get"
    /\ \E exc \in FetchErrors : outcome' = exc
    /\ getCalls' = getCalls + 1
    /\ response' = Unhandled
    /\ pc' = "responded"
    /\ UNCHANGED <<body, url, full_url, page, text, contacts, spans, result, failures>>

\* lines 126-129: the GET or raise_for_status raises; the error dict is returned
GetFail ==
    /\ pc = "get"
    /\ \E exc \in FetchErrors : result' = ErrorResult(exc) /\ outcome' = exc
    /\ getCalls' = getCalls + 1
    /\ pc' = "returned"
    /\ UNCHANGED <<body, url, full_url, page, text, contacts, spans, response, failures>>

\* lines 132-137
Flatten ==
    /\ pc = "fetched"
    /\ text' = CollapseWhitespace(page)
    /\ pc' = "flattened"
    /\ UNCHANGED <<body, url, full_url, getCalls, outcome, page, contacts, spans, result, response, failures>>


SpanOf(m) == [start |-> m.start, end |-> m.end]

\* start_idx, end_idx of the matches ms
Spans(ms) == [i \in 1..Len(ms) |-> SpanOf(ms[i])]

\* lines 167-198
MatchFaculty ==
    /\ pc = "flattened"
    /\ \E ms \in {NameDesignationMatches(text, 1)} :
          /\ contacts' = FacultyContacts(text, ms)
          /\ spans' = Spans(ms)
    /\ pc' = "faculty"
    /\ UNCHANGED <<body, url, full_url, getCalls, outcome, page, text, result, response, failures>>

\* the matches of every student pattern, in the order of student_keywords
StudentMatchesOf(t) ==
    [k \in 1..Len(student_keywords) |-> StudentMatches(t, 1, student_keywords[k])]

\* lines 201-236: keyword by keyword
MatchStudents ==
    /\ pc = "faculty"
    /\ \E found \in {StudentMatchesOf(text)} :
          /\ contacts' = contacts \o
                Concat([k \in 1..Len(student_keywords) |->
                           StudentContacts(text, student_keywords[k], found[k])],
                       Len(student_keywords))
          /\ spans' = spans \o
                Concat([k \in 1..Len(student_keywords) |-> Spans(found[k])],
                       Len(student_keywords))
    /\ pc' = "students"
    /\ UNCHANGED <<body, url, full_url, getCalls, outcome, page, text, result, response, failures>>

\* lines 238-247
Dedupe ==
    /\ pc = "students"
    /\ result' = ListResult(unique_contacts(contacts))
    /\ pc' = "returned"
    /\ UNCHANGED <<body, url, full_url, getCalls, outcome, page, text, contacts, spans, response, failures>>

\* a handler that takes an empty result for a failure: "if not result or ..."
api_response_empty_is_error(r) ==
    IF r.kind = "error" \/ r.list = <<>>
    THEN [status |-> 500, kind |-> "object", error |-> r.error, list |-> <<>>]
    ELSE [status |-> 200, kind |-> "array", error |-> <<>>, list |-> r.list]

\* lines 263-265
api_response(r) ==
    IF r.kind = "error" /\ r.error # <<>>
    THEN [status |-> 500, kind |-> "object", error |-> r.error, list |-> <<>>]
    ELSE IF r.kind = "error"
    THEN [status |-> 200, kind |-> "object", error |-> r.error, list |-> <<>>]
    ELSE [status |-> 200, kind |-> "array", error |-> <<>>, list |-> r.list]

Respond ==
    /\ pc = "returned"
    /\ response' = api_response(result)
    /\ pc' = "responded"
    /\ UNCHANGED <<body, url, full_url, getCalls, outcome, page, text, contacts, spans, result, failures>>

\* the response is sent; everything a request used was local to it
NextRequest ==
    /\ pc = "responded"
    /\ pc' = "idle"
    /\ body' = NoJsonBody
    /\ url' = JNull
    /\ full_url' = <<>>
    /\ getCalls' = 0
    /\ outcome' = "none"
    /\ page' = <<>>
    /\ text' = <<>>
    /\ contacts' = <<>>
    /\ spans' = <<>>
    /\ result' = NoResult
    /\ response' = NoResponse
    /\ failures' = (failures \/ response.status = 500)

(***************************************************************************)
(* Spec: the server under requests of every shape and a handful of pages    *)
(***************************************************************************)
JanePage == <<"D","r","."," ","J","a","n","e"," ","S","m","i","t","h"," ","P","r","o","f","e","s","s","o","r"," ","o","f"," ","E","n","g","i","n","e","e","r","i","n","g",","," ","j","a","n","e",".","s","m","i","t","h","@","u","n","i","v",".","e","d","u",","," ","+","9","1","-","9","8","7","6","5","4","3","2","1","0">>
WelcomePage == <<"W","e","l","c","o","m","e"," "," ","t","o","\n","o","u","r","nbsp","c","o","l","l","e","g","e">>
TwoDeansPage == <<"A","r","t","s",","," ","J","a","n","e"," ","D","e","a","n"," ","x","@","y",".","i","n",";"," ","S","c","i","e","n","c","e",":"," ","J","a","n","e"," ","D","e","a","n"," ","x","@","y",".","i","n">>

HttpPages == {<<>>, JanePage, WelcomePage, TwoDeansPage}

HttpBodies ==
    {NoJsonBody, InvalidJsonBody,
     ValueBody(JNull), ValueBody(JBool(FALSE)), ValueBody(JBool(TRUE)),
     ValueBody(JNum(0)), ValueBody(JNum(7)),
     ValueBody(JStr(<<>>)), ValueBody(JStr(<<"x">>)),
     ValueBody(JArr(0)), ValueBody(JArr(1)),
     ObjectBody(0), ObjectBody(1),
     UrlBody(JNull), UrlBody(JStr(<<>>)), UrlBody(JNum(0)), UrlBody(JBool(FALSE)),
     UrlBody(JArr(0)), UrlBody(JNum(7)),
     UrlBody(JStr(<<"x",".","i","n">>)),
     UrlBody(JStr(<<" ","/","/","x",".","i","n">>)),
     UrlBody(JStr(<<"a",":","/","/","[">>))}

Next ==
    \/ Receive(HttpBodies)
    \/ Normalise
    \/ GetOK(HttpPages)
    \/ GetFail
    \/ Flatten
    \/ MatchFaculty
    \/ MatchStudents
    \/ Dedupe
    \/ Respond
    \/ NextRequest

Spec == Init /\ [][Next]_vars

\* the body carries no non-empty "url": no JSON, invalid JSON, a JSON value
\* that is not an object, an object without "url", or an empty "url"
NoUrlField(b) ==
    \/ b.kind # "json"
    \/ b.data.t # "object"
    \/ ~b.hasUrl
    \/ ~Truthy(b.urlv)

\* C1 (as claimed): every request without a non-empty "url" is answered 400
\* with the "url field is required" body, before extract_contacts or any GET
C1_NoUrlIs400 ==
    (pc = "responded" /\ NoUrlField(body)) =>
        /\ response = BadRequest
        /\ getCalls = 0
        /\ result = NoResult

\* C2: a request whose GET fails makes exactly one GET, extract_contacts
\* returns the error object, the answer is 500 carrying the failure message,
\* and the server is back at its initial state for the next request, whatever
\* failed before
C2_FetchFailureIs500 ==
    /\ outcome \in FetchErrors =>
        /\ getCalls = 1
        /\ pc \in {"returned", "responded"}
        /\ result = ErrorResult(outcome)
    /\ (pc = "responded" /\ outcome \in FetchErrors) =>
        /\ response.status = 500
        /\ response.kind = "object"
        /\ response.error = <<"Failed to fetch URL: ", outcome>>
    /\ pc = "idle" =>
        /\ body = NoJsonBody /\ url = JNull /\ full_url = <<>>
        /\ getCalls = 0 /\ outcome = "none" /\ page = <<>> /\ text = <<>>
        /\ contacts = <<>> /\ spans = <<>>
        /\ result = NoResult /\ response = NoResponse

\* a request whose fetch fails is answered after an earlier request failed
C2_Witness ==
    /\ failures
    /\ pc = "responded"
    /\ outcome \in FetchErrors
    /\ response.status = 500

JaneContact(phone) ==
    [name        |-> <<"D","r","."," ","J","a","n","e"," ","S","m","i","t","h">>,
     designation |-> <<"P","r","o","f","e","s","s","o","r">>,
     department  |-> <<"E","n","g","i","n","e","e","r","i","n","g">>,
     email       |-> <<"j","a","n","e",".","s","m","i","t","h","@","u","n","i","v",".","e","d","u">>,
     phone       |-> phone]

Emits(c) == \E i \in 1..Len(result.list) : result.list[i] = c

\* C5 (as claimed): for the text "Dr. Jane Smith Professor of Engineering,
\* jane.smith@univ.edu, +91-9876543210" a contact with phone "919876543210"
\* is emitted
C5_JanePhoneDigits ==
    (pc = "responded" /\ text = JanePage) =>
        Emits(JaneContact(<<"9","1","9","8","7","6","5","4","3","2","1","0">>))

\* C5 (amended): for that text the contact emitted has the phone as matched,
\* "+91-9876543210": only whitespace is removed from a phone
C5_JanePhoneAsMatched ==
    (pc = "responded" /\ text = JanePage) =>
        Emits(JaneContact(<<"+","9","1","-","9","8","7","6","5","4","3","2","1","0">>))

C5_Witness ==
    /\ pc = "responded"
    /\ text = JanePage
    /\ response.status = 200
    /\ Len(response.list) = 1


(***************************************************************************)
(* SpecNorm: every short URL over a small alphabet, the network being down *)
(***************************************************************************)
MaxUrlLen == 5
UrlAlphabet == {" ", "/", ":", "a", "1", "["}

RECURSIVE StringsOfLen(_, _)
StringsOfLen(A, n) ==
    IF n = 0 THEN {<<>>}
    ELSE {Append(s, c) : s \in StringsOfLen(A, n - 1), c \in A}

StringsUpTo(A, n) == UNION {StringsOfLen(A, k) : k \in 0..n}

NormBodies == {UrlBody(JStr(s)) : s \in StringsUpTo(UrlAlphabet, MaxUrlLen)}

NextNorm ==
    \/ Receive(NormBodies)
    \/ Normalise
    \/ GetFail
    \/ Respond
    \/ NextRequest

SpecNorm == Init /\ [][NextNorm]_vars

StartsWith(s, prefix) == MatchAt(s, 1, prefix)

\* _normalise_url has run on the string url.s
Normalised == pc \in {"get", "returned", "responded"} /\ url.t = "string"

MaxEntries == 3

Entries ==
    {<<"A","r","t","s",":"," ","J","a","n","e"," ","D","e","a","n"," ","x","@","y",".","i","n",";"," ">>,
     <<"S","c","i","e","n","c","e",":"," ","J","a","n","e"," ","D","e","a","n"," ","x","@","y",".","i","n",";"," ">>,
     <<"J","a","n","e"," ","D","e","a","n"," ","9","8","7","6","5","4","3","2","1","0",";"," ">>,
     <<"R","a","v","i"," ","H","e","a","d"," ","x","@","y",".","i","n",";"," ">>,
     <<"J","a","n","e"," ","D","e","a","n",";"," ">>}

\* the concatenations of n segments
RECURSIVE PagesOfLen(_, _)
PagesOfLen(Segments, n) ==
    IF n = 0 THEN {<<>>}
    ELSE {p \o s : p \in PagesOfLen(Segments, n - 1), s \in Segments}

PagesUpTo(Segments, n) == UNION {PagesOfLen(Segments, k) : k \in 0..n}

EntryPages == PagesUpTo(Entries, MaxEntries)

OneBody == {UrlBody(JStr(<<"x",".","i","n">>))}

NextDedup ==
    \/ Receive(OneBody)
    \/ Normalise
    \/ GetOK(EntryPages)
    \/ GetFail
    \/ Flatten
    \/ MatchFaculty
    \/ MatchStudents
    \/ Dedupe
    \/ Respond
    \/ NextRequest

SpecDedup == Init /\ [][NextDedup]_vars

Triple(c) == <<c.name, c.designation, c.email>>

\* the place of the first contact of the matched list with the triple of c
FirstWith(cs, c) == MinOf({i \in 1..Len(cs) : Triple(cs[i]) = Triple(c)})

\* C4: the returned list has no two entries with the same (name, designation,
\* email), has exactly one entry for every triple of the matched list, and its
\* entries are the first occurrences of their triples, in first-seen order
C4_FirstOccurrenceKept ==
    (pc \in {"returned", "responded"} /\ outcome = "ok") =>
        LET cs == contacts
            us == result.list
        IN  /\ \A i, j \in 1..Len(us) : Triple(us[i]) = Triple(us[j]) => i = j
            /\ \A i \in 1..Len(cs) :
                  Cardinality({j \in 1..Len(us) : Triple(us[j]) = Triple(cs[i])}) = 1
            /\ \A j \in 1..Len(us) :
                  /\ \E i \in 1..Len(cs) : Triple(cs[i]) = Triple(us[j])
                  /\ us[j] = cs[FirstWith(cs, us[j])]
            /\ \A i, j \in 1..Len(us) :
                  i < j => FirstWith(cs, us[i]) < FirstWith(cs, us[j])

\* a later contact repeats a triple with another department or phone and is dropped
C4_Witness ==
    /\ pc = "responded"
    /\ response.status = 200
    /\ Len(response.list) < Len(contacts)
    /\ \E i, j \in 1..Len(contacts) :
          /\ i < j
          /\ Triple(contacts[i]) = Triple(contacts[j])
          /\ contacts[i].department # contacts[j].department
    /\ \E i, j \in 1..Len(contacts) :
          /\ i < j
          /\ Triple(contacts[i]) = Triple(contacts[j])
          /\ contacts[i].phone # contacts[j].phone


(***************************************************************************)
(* SpecText: pages made of a few words, titles, role labels and an email    *)
(***************************************************************************)
MaxSegments == 3

TextSegments ==
    {<<"D","r","."," ">>,
     <<"J","a","n","e"," ">>,
     <<"t","h","e"," ">>,
     <<"H","e","a","d"," ">>,
     <<"R","a","v","i"," ">>,
     <<"-"," ">>,
     <<"P","l","a","c","e","m","e","n","t"," ","C","e","l","l"," ">>,
     <<"o","f"," ","A","r","t","s"," ">>,
     <<"j","@","u",".","i","n"," ">>}

TextPages == PagesUpTo(TextSegments, MaxSegments)

NextText ==
    \/ Receive(OneBody)
    \/ Normalise
    \/ GetOK(TextPages)
    \/ GetFail
    \/ Flatten
    \/ MatchFaculty
    \/ MatchStudents
    \/ Dedupe
    \/ Respond
    \/ NextRequest

SpecText == Init /\ [][NextText]_vars

\* the keyword occurs in t, in any case
Occurs(keyword, t) == \E p \in 1..Len(t) : MatchCI(t, p, keyword)

NoKeywords(t) ==
    /\ \A k \in 1..Len(designation_keywords) : ~Occurs(designation_keywords[k], t)
    /\ \A k \in 1..Len(student_keywords) : ~Occurs(student_keywords[k], t)

\* C6: a fetched page whose text holds no designation keyword and no
\* student-role label gives the empty contact list, not an error, and the
\* answer is 200 with an empty array
C6_NoKeywordsEmptyList ==
    /\ (pc \in {"returned", "responded"} /\ outcome = "ok" /\ NoKeywords(text)) =>
          result = ListResult(<<>>)
    /\ (pc = "responded" /\ outcome = "ok" /\ NoKeywords(text)) =>
          response = [status |-> 200, kind |-> "array", error |-> <<>>, list |-> <<>>]

\* a page of capitalised words and an email, without any keyword, was answered
C6_Witness ==
    /\ pc = "responded"
    /\ outcome = "ok"
    /\ NoKeywords(text)
    /\ \E p \in 1..Len(text) : text[p] \in Upper
    /\ \E p \in 1..Len(text) : text[p] = "@"
    /\ response.status = 200

\* the words of a name: the name is collapsed, so a space separates two words
WordCount(name) == Cardinality({i \in 1..Len(name) : name[i] = " "}) + 1

\* the words of a name each begin with an upper-case letter
Capitalised(name) ==
    /\ name # <<>>
    /\ name[1] \in Upper
    /\ \A i \in 2..Len(name) : name[i - 1] = " " => name[i] \in Upper

IsStudentRole(c) == \E k \in 1..Len(student_keywords) : c.designation = student_keywords[k]

\* a capitalised word at p that is a whole word and ends before position e
CapitalisedWord(t, p, e) ==
    /\ p = 1 \/ t[p - 1] \in Whitespace
    /\ t[p] \in Upper
    /\ e > p
    /\ Run(t, p + 1, NameChar) = e

\* C9 (as claimed): the student-role matcher emits a contact for every name
\* followed, optionally through one separator, by a role label, a one-word
\* name included; a captured name has 1 to 4 words; the designation is the label
C9_OneToFourWords ==
    pc \in {"students", "returned", "responded"} =>
        /\ \A i \in 1..Len(contacts) :
              IsStudentRole(contacts[i]) => WordCount(contacts[i].name) \in 1..MaxWords
        /\ \A p \in 1..Len(text), e \in 1..Len(text), k \in 1..Len(student_keywords) :
              (CapitalisedWord(text, p, e) /\ RoleTailEnd(text, e, student_keywords[k]) # 0) =>
                  \E i \in 1..Len(contacts) :
                      /\ contacts[i].designation = student_keywords[k]
                      /\ spans[i].end = RoleTailEnd(text, e, student_keywords[k])

\* C10 (as claimed): a name matched before a designation keyword has 1 to 4
\* words, after an optional "Dr.", each beginning with an upper-case letter
C10_CapitalisedNames ==
    pc \in {"faculty", "students", "returned", "responded"} =>
        \A i \in 1..Len(contacts) :
            ~IsStudentRole(contacts[i]) =>
                /\ Capitalised(contacts[i].name)
                /\ WordCount(contacts[i].name) \in 1..(MaxWords + 1)
                /\ WordCount(contacts[i].name) = MaxWords + 1 =>
                      MatchAt(contacts[i].name, 1, <<"D", "r">>)


(***************************************************************************)
(* SpecWindow: one person with text placed around the ends of the windows   *)
(***************************************************************************)
\* the paddings reach from PadSpread characters short of a window to a full window
PadSpread == 12

PadLens == {0} \cup {Window - d : d \in 0..PadSpread}

Pad(n) == [i \in 1..n |-> "*"]

BeforeItems ==
    {<<>>,
     <<"A","r","t","s">>,
     <<"x","@","y",".","i","n">>,
     <<"9","1","2","3","4","5","6","7","8","9">>}

AfterItems ==
    {<<>>,
     <<"s","c","i","e","n","c","e">>,
     <<"a","@","b",".","i","n">>,
     <<"9","8","7","6","5","4","3","2","1","0">>,
     <<"+","9","1"," ","9","8","7","6","5","4","3","2","1","0">>}

\* item, padding, the person, padding, item
WindowPage(a, m, n, b) ==
    a \o <<",", " ">> \o Pad(m) \o <<"J","a","n","e"," ","D","e","a","n",",">> \o Pad(n) \o b

\* the pages in which at most one of the two paddings is not empty
WindowPages ==
    {WindowPage(a, m, 0, b) : a \in BeforeItems, b \in AfterItems, m \in PadLens}
        \cup {WindowPage(a, 0, n, b) : a \in BeforeItems, b \in AfterItems, n \in PadLens}

NextWindow ==
    \/ Receive(OneBody)
    \/ Normalise
    \/ GetOK(WindowPages)
    \/ GetFail
    \/ Flatten
    \/ MatchFaculty
    \/ MatchStudents
    \/ Dedupe
    \/ Respond
    \/ NextRequest

SpecWindow == Init /\ [][NextWindow]_vars

\* the 300 characters of text before and after the span of contact i
BeforeWindow(i) == SubSeq(text, Max(1, spans[i].start - 300), spans[i].start - 1)
AfterWindow(i) == Slice(text, spans[i].end, spans[i].end + 300)

\* s occurs in t; a phone is compared without the one whitespace its match
\* may hold
OccursStripped(s, t) ==
    \E p \in 1..Len(t), extra \in {0, 1} :
        /\ p + Len(s) - 1 + extra <= Len(t)
        /\ RemoveWhitespace(SubSeq(t, p, p + Len(s) - 1 + extra)) = s

\* C7: the email and the phone of a contact are the first match of their
\* pattern in the 300 characters after the match span, null when that window
\* has no match; what occurs only before the match or further away is never taken
C7_FromAfterWindowOnly ==
    pc \in {"faculty", "students", "returned", "responded"} =>
        \A i \in 1..Len(contacts) :
            /\ contacts[i].email = SearchEmail(AfterWindow(i))
            /\ contacts[i].phone = SearchPhone(AfterWindow(i))
            /\ contacts[i].email = None <=>
                  ~\E p \in 1..Len(AfterWindow(i)) : EmailEnd(AfterWindow(i), p) # 0
            /\ contacts[i].phone = None <=>
                  ~\E p \in 1..Len(AfterWindow(i)) : PhoneEnd(AfterWindow(i), p) # 0
            /\ contacts[i].email # None => OccursStripped(contacts[i].email, AfterWindow(i))
            /\ contacts[i].phone # None => OccursStripped(contacts[i].phone, AfterWindow(i))

\* an email before the match and an email more than 300 characters after it: none is taken
C7_Witness ==
    /\ pc = "responded"
    /\ Len(contacts) = 1
    /\ contacts[1].email = None
    /\ \E p \in 1..(spans[1].start - 1) : EmailEnd(text, p) # 0
    /\ \E p \in (spans[1].end + 300)..Len(text) : EmailEnd(text, p) # 0

DepartmentsIn(w) == {k \in 1..Len(department_keywords) : WholeWordIn(department_keywords[k], w)}

\* C8: the department is the earliest listed keyword that is a whole word of
\* the before window whenever that window has one, whatever the after window
\* holds; else the earliest listed keyword of the after window; else null
C8_BeforeWindowFirst ==
    pc \in {"faculty", "students", "returned", "responded"} =>
        \A i \in 1..Len(contacts) :
            contacts[i].department =
                IF DepartmentsIn(BeforeWindow(i)) # {}
                THEN department_keywords[MinOf(DepartmentsIn(BeforeWindow(i)))]
                ELSE IF DepartmentsIn(AfterWindow(i)) # {}
                THEN department_keywords[MinOf(DepartmentsIn(AfterWindow(i)))]
                ELSE None

\* Arts before the match wins over Science after it, though Science is listed first
C8_Witness ==
    /\ pc = "responded"
    /\ Len(contacts) = 1
    /\ contacts[1].department = <<"A","r","t","s">>
    /\ 2 \in DepartmentsIn(AfterWindow(1))
    /\ 3 \in DepartmentsIn(BeforeWindow(1))

====
